---- MODULE Spec2Model ----
(***************************************************************************)
(* Model of the asyncio TCP service of TCP_loan_server.py: the framed      *)
(* request/response loop of handle_client, the command dispatch, the       *)
(* lock-protected KVStore, the JsonlLogger and the run_server lifecycle.   *)
(*                                                                         *)
(* Granularity: one action per point at which a handler task can be        *)
(* suspended or interleaved with another one (a read, a lock acquisition,  *)
(* the body of a store operation, a send, a log write, the finally block). *)
(* Variables marked "ghost" record history for the properties; no action   *)
(* of the program reads them.                                              *)
(***************************************************************************)
EXTENDS Integers, Sequences, FiniteSets, TLC

(* ------------------------------ bounds ---------------------------------- *)

\* Total number of frames the peers send, over all connections.
MaxFrames == 3

\* The length in bytes of each key the clients use: the names "a" and "b" of
\* the model stand for two keys of that length.
KeyLen == 6000000

(* ------------------------- program constants ---------------------------- *)

\* wait_for(read_frame(reader), timeout=300)
IdleTimeout == 300

\* read_frame: if length < 0 or length > 10_000_000
MaxFrameLen == 10000000

\* HEADER = struct.Struct("!I"): four bytes, an unsigned big-endian integer.
HeaderSize == 4

(* --------------------------- JSON values -------------------------------- *)

\* The connections the listener may accept: two concurrent clients.
Conns == {1, 2}

NoConn == 0

\* A field that the JSON object does not carry (dict.get gives None).
Absent == "<absent>"

\* JSON null, Python None.
JNull == "<null>"

\* A JSON number (a truthy non-string value).
JNum == "<5>"

\* The keys and the values the clients use.
Keys == {"a", "b"}

Values == {"x", JNull}

\* Python None as seen by dict.get / dict.pop defaults: absent or null.
IsNone(v) == v \in {Absent, JNull}

\* Truthiness of the modelled JSON values ("" is the only falsy string).
Truthy(v) == ~IsNone(v) /\ v # ""

IsStr(v) == v \notin {Absent, JNull, JNum}

\* str.upper on the command words of the model.
Upper(s) ==
    CASE s = "ping" -> "PING"
      [] s = "del"  -> "DEL"
      [] OTHER      -> s

(* ----------------------------- requests --------------------------------- *)

\* A decoded request: shape "dict" is a JSON object, "list" any other JSON
\* value.  Numeric fields are <<>> when missing and <<n>> when present.
BaseReq ==
    [shape |-> "dict", cmd |-> Absent, key |-> Absent, value |-> Absent,
     username |-> Absent, loan_amount |-> <<>>, years |-> <<>>,
     annual_rate |-> <<>>]

NoReq == [BaseReq EXCEPT !.shape = "none"]

Cmd(c) == [BaseReq EXCEPT !.cmd = c]

KeyCmd(c, k) == [BaseReq EXCEPT !.cmd = c, !.key = k]

SetReq(k, v) == [BaseReq EXCEPT !.cmd = "SET", !.key = k, !.value = v]

LoanReq(u, a, y, r) ==
    [BaseReq EXCEPT !.cmd = "LOAN", !.username = u, !.loan_amount = a,
                    !.years = y, !.annual_rate = r]

LoanRequests ==
    { LoanReq("bob", <<1200>>, <<1>>, <<0>>),
      LoanReq("bob", <<1200>>, <<0>>, <<0>>),
      LoanReq(Absent, <<1200>>, <<1>>, <<0>>),
      LoanReq("bob", <<>>, <<1>>, <<0>>),
      LoanReq("bob", <<1200>>, <<>>, <<0>>),
      LoanReq("bob", <<1200>>, <<1>>, <<>>) }

StoreRequests ==
    { SetReq("a", "x"), SetReq("a", JNull),
      SetReq("b", "x"), SetReq("a", Absent), SetReq(Absent, "x"),
      KeyCmd("GET", "a"), KeyCmd("GET", Absent),
      KeyCmd("DEL", "a"), KeyCmd("del", "b"), KeyCmd("DEL", Absent),
      Cmd("KEYS"), Cmd("CLEAR") }

OtherRequests ==
    { [BaseReq EXCEPT !.shape = "list"], Cmd(JNum), Cmd(Absent),
      Cmd("PING"), Cmd("ping"), Cmd("FOO") }

\* The requests a peer may send in a well-formed frame.
Requests == StoreRequests \cup LoanRequests \cup OtherRequests

(* ----------------------------- responses -------------------------------- *)

NoResp == [none |-> TRUE]

NoRead == [declared |-> 0, consumed |-> 0]

Ok == [ok |-> TRUE]

Err(msg) == [ok |-> FALSE, error |-> msg]

IdleResp == Err("idle timeout")

(* ------------------------------ framing --------------------------------- *)

RECURSIVE IntDigits(_)
\* The number of decimal digits of a natural number.
IntDigits(n) == IF n < 10 THEN 1 ELSE 1 + IntDigits(n \div 10)

\* The length of a string of the model in bytes.
StrLen(s) == IF s \in Keys THEN KeyLen ELSE Len(s)

\* The length of json.dumps(v) of a null, a number or a string.
JsonLen(v) ==
    CASE v = JNull -> 4
      [] v = JNum  -> 1
      [] OTHER     -> StrLen(v) + 2

\* The length of the member "name":value followed by its comma, nothing
\* when the object does not carry the field.
MemberLen(name, present, vlen) ==
    IF present THEN Len(name) + 4 + vlen ELSE 0

\* The length of the payload of request r with separators (",", ":").
ReqLen(r) ==
    IF r.shape # "dict" THEN 5
    ELSE LET members ==
               MemberLen("cmd", r.cmd # Absent, JsonLen(r.cmd))
                 + MemberLen("key", r.key # Absent, JsonLen(r.key))
                 + MemberLen("value", r.value # Absent, JsonLen(r.value))
                 + MemberLen("username", r.username # Absent,
                             JsonLen(r.username))
                 + MemberLen("loan_amount", r.loan_amount # <<>>,
                             IntDigits(Head(r.loan_amount \o <<0>>)))
                 + MemberLen("years", r.years # <<>>,
                             IntDigits(Head(r.years \o <<0>>)))
                 + MemberLen("annual_rate", r.annual_rate # <<>>,
                             IntDigits(Head(r.annual_rate \o <<0>>)))
         IN  IF members = 0 THEN 2 ELSE members + 1

\* What the peer can put on the stream as one unit: a well-formed frame, a
\* header declaring more than MaxFrameLen bytes, a frame whose payload is
\* not UTF-8 JSON.
Units ==
    { [kind |-> "frame", len |-> ReqLen(r), req |-> r] : r \in Requests }
      \cup [kind : {"oversize"}, len : {MaxFrameLen + 1, 2 * MaxFrameLen},
            req : {NoReq}]
      \cup [kind : {"garbage"}, len : {1}, req : {NoReq}]

\* read_frame that reads the declared body before it checks the length.
ReadFrameResultReadsBody(u) ==
    IF u.len < 0 \/ u.len > MaxFrameLen
    THEN [raised |-> TRUE, error |-> "invalid frame length", req |-> NoReq,
          consumed |-> HeaderSize + u.len]
    ELSE IF u.kind = "garbage"
    THEN [raised |-> TRUE,
          error |-> "Expecting value: line 1 column 1 (char 0)",
          req |-> NoReq, consumed |-> HeaderSize + u.len]
    ELSE [raised |-> FALSE, error |-> "", req |-> u.req,
          consumed |-> HeaderSize + u.len]

\* read_frame: the decoded request, or the exception it raises, and the
\* number of bytes the call has taken from the stream.
ReadFrameResult(u) ==
    IF u.len < 0 \/ u.len > MaxFrameLen
    THEN [raised |-> TRUE, error |-> "invalid frame length", req |-> NoReq,
          consumed |-> HeaderSize]
    ELSE IF u.kind = "garbage"
    THEN [raised |-> TRUE,
          error |-> "Expecting value: line 1 column 1 (char 0)",
          req |-> NoReq, consumed |-> HeaderSize + u.len]
    ELSE [raised |-> FALSE, error |-> "", req |-> u.req,
          consumed |-> HeaderSize + u.len]

(* ------------------------------ KVStore --------------------------------- *)

\* self._data.setdefault(key, value): an existing entry is kept.
DictSetDefault(d, k, v) ==
    [x \in DOMAIN d \cup {k} |-> IF x \in DOMAIN d THEN d[x] ELSE v]

\* self._data[key] = value
DictSet(d, k, v) == [x \in DOMAIN d \cup {k} |-> IF x = k THEN v ELSE d[x]]

\* self._data.pop(key, None): the value removed, None when there is none.
DictPop(d, k) == IF k \in DOMAIN d THEN d[k] ELSE JNull

\* The dictionary after pop(key, None).
DictRemove(d, k) == [x \in DOMAIN d \ {k} |-> d[x]]

EmptyDict == [x \in {} |-> JNull]

\* KVStore.delete: existed = self._data.pop(key, None) is not None
DeleteResp(d, k) == [ok |-> TRUE, deleted |-> ~IsNone(DictPop(d, k))]

\* KVStore.get, first statement: key not in self._data
GetMissing(d, k) == k \notin DOMAIN d

\* KVStore.get, second statement: {"ok": True, "value": self._data[key]}
GetResp(d, k) == [ok |-> TRUE, value |-> d[k]]

NotFound == Err("not found")

\* KVStore.keys: list(self._data.keys()); the order of the list is not
\* modelled, the response carries the set of keys.
KeysResp(d) == [ok |-> TRUE, keys |-> DOMAIN d]

(* ----------------------------- loan math -------------------------------- *)

\* round(a / b, 2) on amounts held in hundredths, b > 0.
RoundDiv(a, b) == (2 * a + b) \div (2 * b)

\* calculate_payments for annual_rate = 0, the only rate the modelled
\* requests carry: monthly_rate == 0, monthly_payment = loan_amount /
\* total_payments, which divides by zero when years = 0.
CalculatePayments(loan_amount, years) ==
    LET total_payments == years * 12
    IN  IF total_payments = 0
        THEN [raised |-> TRUE, monthly |-> 0, total |-> 0]
        ELSE [raised |-> FALSE,
              monthly |-> RoundDiv(100 * loan_amount, total_payments),
              total   |-> 100 * loan_amount]

\* The LOAN branch of handle_client: req["loan_amount"], req["years"],
\* req["annual_rate"] raise KeyError when missing; username defaults to "".
LoanResp(r) ==
    IF r.loan_amount = <<>> THEN Err("missing field: 'loan_amount'")
    ELSE IF r.years = <<>> THEN Err("missing field: 'years'")
    ELSE IF r.annual_rate = <<>> THEN Err("missing field: 'annual_rate'")
    ELSE LET p == CalculatePayments(r.loan_amount[1], r.years[1])
         IN  IF p.raised
             THEN Err("float division by zero")
             ELSE [ok |-> TRUE, monthly_payment |-> p.monthly,
                   total_payment |-> p.total]

(* -------------------------- response frames ----------------------------- *)

\* The length of repr(round(x, 2)) for an amount of h hundredths.
FloatLen(h) == IntDigits(h \div 100) + 1 + (IF h % 10 = 0 THEN 1 ELSE 2)

RECURSIVE KeysLen(_)
\* The length of the members of the key list, each followed by its comma.
KeysLen(ks) ==
    IF ks = {} THEN 0
    ELSE LET k == CHOOSE x \in ks : TRUE
         IN  JsonLen(k) + 1 + KeysLen(ks \ {k})

\* write_frame: len(data) of json.dumps(payload, separators=(",", ":")),
\* the length the header of the response frame declares.
FrameLen(r) ==
    LET f == DOMAIN r
    IN  CASE "error" \in f   -> 23 + Len(r.error)
          [] "keys" \in f    -> 21 + (IF r.keys = {} THEN 0
                                     ELSE KeysLen(r.keys) - 1)
          [] "value" \in f   -> 20 + JsonLen(r.value)
          [] "deleted" \in f -> 22 + (IF r.deleted THEN 4 ELSE 5)
          [] "reply" \in f   -> 20 + JsonLen(r.reply)
          [] "monthly_payment" \in f ->
               47 + FloatLen(r.monthly_payment) + FloatLen(r.total_payment)
          [] OTHER           -> 11

(* ------------------------------ dispatch -------------------------------- *)

\* cmd = (req.get("cmd") or "").upper() raises AttributeError when req is
\* not a JSON object (no .get) or cmd is a truthy non-string (no .upper).
CmdRaises(r) == r.shape # "dict" \/ (Truthy(r.cmd) /\ ~IsStr(r.cmd))

CmdOf(r) == IF Truthy(r.cmd) THEN Upper(r.cmd) ELSE ""

\* Whether the dispatch of r calls a KVStore method.
CallsStore(r) ==
    /\ ~CmdRaises(r)
    /\ \/ CmdOf(r) \in {"KEYS", "CLEAR"}
       \/ CmdOf(r) \in {"GET", "DEL"} /\ ~IsNone(r.key)
       \/ CmdOf(r) = "SET" /\ ~IsNone(r.key) /\ r.value # Absent

\* The response of the branches of the dispatch that do not call the store.
LocalResp(r) ==
    LET cmd == CmdOf(r)
    IN  CASE cmd = "PING" -> [ok |-> TRUE, reply |-> "PONG"]
          [] cmd = "LOAN" -> LoanResp(r)
          [] cmd = "SET"  -> Err("SET requires 'key' and 'value'")
          [] cmd = "GET"  -> Err("GET requires 'key'")
          [] cmd = "DEL"  -> Err("DEL requires 'key'")
          [] OTHER        -> Err("unknown cmd: " \o cmd)

(* ------------------------- serial specification ------------------------- *)

\* The reference of property C1, not a model of the code: the store as a
\* total map, Absent where there is no entry, and what each store command
\* does to it and answers when the commands run one after the other.
AbsEmpty == [k \in Keys |-> Absent]

AbsApply(s, r) ==
    LET cmd == CmdOf(r)
    IN  CASE cmd = "SET"   -> [s EXCEPT ![r.key] = r.value]
          [] cmd = "DEL"   -> [s EXCEPT ![r.key] = Absent]
          [] cmd = "CLEAR" -> AbsEmpty
          [] OTHER         -> s

AbsResp(s, r) ==
    LET cmd == CmdOf(r)
    IN  CASE cmd = "GET"  -> IF s[r.key] = Absent THEN NotFound
                             ELSE [ok |-> TRUE, value |-> s[r.key]]
          [] cmd = "DEL"  -> [ok |-> TRUE, deleted |-> s[r.key] # Absent]
          [] cmd = "KEYS" -> [ok |-> TRUE, keys |-> {k \in Keys : s[k] # Absent}]
          [] OTHER        -> Ok

\* The dictionary that holds exactly the entries of a total map.
AsDict(s) == [k \in {x \in Keys : s[x] # Absent} |-> s[k]]

(* ------------------------------- state ---------------------------------- *)

VARIABLES
    pc,         \* handler position: "idle" (not accepted), "await", "acquire",
                \* "body", "getread", "drain", "log", "logwrite", "finally",
                \* "done"
    phase,      \* which branch of the loop body runs: "exchange", "read_error",
                \* "timeout"
    req,        \* the request decoded last
    resp,       \* the response built last
    wire,       \* the frame written last to the connection's writer
    closed,     \* writer.close() was called
    peerClosed, \* the peer has ended its stream and read_frame waits on it
    idle,       \* time the pending read_frame has waited: 0 or IdleTimeout
    nframes,    \* units read_frame has consumed, over all connections
    data,       \* KVStore._data
    storeLock,  \* holder of KVStore._lock, NoConn when free
    log,        \* the lines of the log file
    logLock,    \* holder of JsonlLogger._lock, NoConn when free
    listening,  \* the server's listening sockets are open
    stop,       \* the stop event
    server,     \* run_server / asyncio.run position: "serving", "wait_closed",
                \* "gather", "exited"
    owed,       \* ghost: read_frame outcomes that call for a response, less
                \* the frames written to the writer
    exit,       \* ghost: why the handler left its loop
    serial,     \* ghost: the store of the serial execution
    lin,        \* ghost: the serial execution's response to the store call
    pre,        \* ghost: _data as the store call found it
    cleared,    \* ghost: "clean" once the connection's CLEAR has run, "dirty"
                \* once a SET has run after it, "held" while the KEYS that ran
                \* on the clean store is being answered, "no" otherwise
    lastread    \* ghost: the length that the header of the last read_frame
                \* call declared and the bytes the call took from the stream

hvars == <<pc, phase, req, resp, wire, closed>>
pvars == <<peerClosed, idle, nframes>>
svars == <<data, storeLock>>
lvars == <<log, logLock>>
srvvars == <<listening, stop, server>>
gvars == <<serial, lin, pre>>
xvars == <<cleared, lastread>>
vars == <<hvars, pvars, svars, lvars, srvvars, owed, exit, gvars, xvars>>

Init ==
    /\ pc = [c \in Conns |-> "idle"]
    /\ phase = [c \in Conns |-> "exchange"]
    /\ req = [c \in Conns |-> NoReq]
    /\ resp = [c \in Conns |-> NoResp]
    /\ wire = [c \in Conns |-> NoResp]
    /\ closed = [c \in Conns |-> FALSE]
    /\ peerClosed = [c \in Conns |-> FALSE]
    /\ idle = [c \in Conns |-> 0]
    /\ nframes = 0
    /\ data = EmptyDict
    /\ storeLock = NoConn
    /\ log = <<>>
    /\ logLock = NoConn
    /\ listening = TRUE
    /\ stop = FALSE
    /\ server = "serving"
    /\ owed = [c \in Conns |-> 0]
    /\ exit = [c \in Conns |-> "none"]
    /\ serial = AbsEmpty
    /\ lin = [c \in Conns |-> NoResp]
    /\ pre = [c \in Conns |-> EmptyDict]
    /\ cleared = [c \in Conns |-> "no"]
    /\ lastread = [c \in Conns |-> NoRead]

(* ------------------------------ helpers --------------------------------- *)

\* write_frame up to writer.write: the frame is handed to the transport and
\* the handler goes on to await writer.drain().
WriteFrame(c, r) ==
    /\ resp' = [resp EXCEPT ![c] = r]
    /\ wire' = [wire EXCEPT ![c] = r]
    /\ pc' = [pc EXCEPT ![c] = "drain"]

\* Leave without the try/finally: the coroutine ends where the loop ends.
LeaveNoFinally(c, why) ==
    /\ pc' = [pc EXCEPT ![c] = "done"]
    /\ exit' = [exit EXCEPT ![c] = why]

\* An exception (or the break statement) leaves the while loop: control goes
\* to the finally block of handle_client.
Leave(c, why) ==
    /\ pc' = [pc EXCEPT ![c] = "finally"]
    /\ exit' = [exit EXCEPT ![c] = why]

\* The request and the response of the iteration are no longer used.
LocalsDead(c) ==
    /\ req' = [req EXCEPT ![c] = NoReq]
    /\ resp' = [resp EXCEPT ![c] = NoResp]
    /\ wire' = [wire EXCEPT ![c] = NoResp]
    /\ lin' = [lin EXCEPT ![c] = NoResp]
    /\ pre' = [pre EXCEPT ![c] = EmptyDict]
    /\ lastread' = [lastread EXCEPT ![c] = NoRead]

\* The record logger.log is called with, reduced to its peer and its kind.
LogRecord(c) == [peer |-> c, event |-> phase[c]]

\* StoreNext with a clear() that leaves the dictionary as it is.
StoreNextClearKeeps(d, r) ==
    LET cmd == CmdOf(r)
    IN  CASE cmd = "SET"   -> DictSet(d, r.key, r.value)
          [] cmd = "DEL"   -> DictRemove(d, r.key)
          [] OTHER         -> d

\* StoreNext with a get() that removes the entry it returns.
StoreNextGetEvicts(d, r) ==
    LET cmd == CmdOf(r)
    IN  CASE cmd = "SET"   -> DictSet(d, r.key, r.value)
          [] cmd \in {"DEL", "GET"} -> DictRemove(d, r.key)
          [] cmd = "CLEAR" -> EmptyDict
          [] OTHER         -> d

\* _data after the KVStore method that request r calls.
StoreNext(d, r) ==
    LET cmd == CmdOf(r)
    IN  CASE cmd = "SET"   -> DictSet(d, r.key, r.value)
          [] cmd = "DEL"   -> DictRemove(d, r.key)
          [] cmd = "CLEAR" -> EmptyDict
          [] OTHER         -> d

\* The response of the KVStore method that request r calls (for GET, of its
\* first statement when the key is missing).
StoreResp(d, r) ==
    LET cmd == CmdOf(r)
    IN  CASE cmd = "GET"  -> NotFound
          [] cmd = "DEL"  -> DeleteResp(d, r.key)
          [] cmd = "KEYS" -> KeysResp(d)
          [] OTHER        -> Ok

(* --------------------------- handle_client ------------------------------ *)

\* asyncio.start_server calls handle_client for a new connection.
Accept(c) ==
    /\ listening
    /\ pc[c] = "idle"
    /\ pc' = [pc EXCEPT ![c] = "await"]
    /\ UNCHANGED <<phase, req, resp, wire, closed, pvars, svars, lvars,
                   srvvars, owed, exit, gvars, xvars>>

\* The peer ends its stream, before a header or inside a frame, while
\* read_frame waits for its bytes.
PeerClose(c) ==
    /\ pc[c] = "await"
    /\ ~peerClosed[c]
    /\ idle[c] < IdleTimeout
    /\ peerClosed' = [peerClosed EXCEPT ![c] = TRUE]
    /\ UNCHANGED <<hvars, idle, nframes, svars, lvars, srvvars, owed, exit,
                   gvars, xvars>>

\* IdleTimeout seconds pass while read_frame waits and no frame arrives.
Elapse(c) ==
    /\ pc[c] = "await"
    /\ ~peerClosed[c]
    /\ idle[c] < IdleTimeout
    /\ idle' = [idle EXCEPT ![c] = IdleTimeout]
    /\ UNCHANGED <<hvars, peerClosed, nframes, svars, lvars, srvvars, owed,
                   exit, gvars, xvars>>

\* The read_error branch (except Exception): the error is written back.
ReadError(c, msg) ==
    /\ phase' = [phase EXCEPT ![c] = "read_error"]
    /\ WriteFrame(c, Err(msg))
    /\ UNCHANGED <<req, owed, exit>>

\* Dispatch that hands a store command to the store and goes back to reading
\* before the command is answered.
DispatchPipelined(c, r) ==
    /\ phase' = [phase EXCEPT ![c] = "exchange"]
    /\ IF CmdRaises(r)
       THEN /\ Leave(c, "dispatch_error")
            /\ req' = [req EXCEPT ![c] = r]
            /\ owed' = [owed EXCEPT ![c] = @ + 1]
            /\ UNCHANGED <<resp, wire>>
       ELSE IF CallsStore(r)
       THEN /\ owed' = [owed EXCEPT ![c] = @ + 1]
            /\ UNCHANGED <<pc, req, resp, wire, exit>>
       ELSE /\ WriteFrame(c, LocalResp(r))
            /\ req' = [req EXCEPT ![c] = r]
            /\ UNCHANGED <<owed, exit>>

\* The dispatch on cmd of the decoded request r, which runs without
\* suspension after read_frame returns: an AttributeError escapes, a store
\* command goes on to the KVStore call, every other branch writes its
\* response.
Dispatch(c, r) ==
    /\ phase' = [phase EXCEPT ![c] = "exchange"]
    /\ req' = [req EXCEPT ![c] = r]
    /\ IF CmdRaises(r)
       THEN /\ Leave(c, "dispatch_error")
            /\ owed' = [owed EXCEPT ![c] = @ + 1]
            /\ UNCHANGED <<resp, wire>>
       ELSE IF CallsStore(r)
       THEN /\ pc' = [pc EXCEPT ![c] = "acquire"]
            /\ owed' = [owed EXCEPT ![c] = @ + 1]
            /\ UNCHANGED <<resp, wire, exit>>
       ELSE /\ WriteFrame(c, LocalResp(r))
            /\ UNCHANGED <<owed, exit>>

\* Whether read_frame has returned a KEYS request.
IsKeys(r) == ~r.raised /\ ~CmdRaises(r.req) /\ CmdOf(r.req) = "KEYS"

\* The peer has sent a unit before IdleTimeout has elapsed: read_frame
\* returns a request, which is dispatched, or raises.
ReadFrame(c) ==
    /\ pc[c] = "await"
    /\ ~peerClosed[c]
    /\ idle[c] < IdleTimeout
    /\ nframes < MaxFrames
    /\ nframes' = nframes + 1
    /\ \E u \in Units :
         LET r == ReadFrameResult(u)
         IN  /\ IF r.raised THEN ReadError(c, r.error) ELSE Dispatch(c, r.req)
             /\ lastread' = [lastread EXCEPT ![c] =
                               [declared |-> u.len, consumed |-> r.consumed]]
             /\ cleared' = [cleared EXCEPT ![c] =
                              IF IsKeys(r) THEN @ ELSE "no"]
    /\ UNCHANGED <<closed, peerClosed, idle, svars, lvars, srvvars, gvars>>

\* wait_for cancels read_frame and raises TimeoutError: the timeout branch
\* writes its response.
Timeout(c) ==
    /\ pc[c] = "await"
    /\ idle[c] >= IdleTimeout
    /\ idle' = [idle EXCEPT ![c] = 0]
    /\ phase' = [phase EXCEPT ![c] = "timeout"]
    /\ WriteFrame(c, IdleResp)
    /\ UNCHANGED <<req, closed, peerClosed, nframes, svars, lvars, srvvars,
                   owed, exit, gvars, xvars>>

\* ReadEOF with IncompleteReadError handled like any other exception of
\* read_frame.
ReadEOFAnswered(c) ==
    /\ pc[c] = "await"
    /\ peerClosed[c]
    /\ ReadError(c, "0 bytes read on a total of 4 expected bytes")
    /\ UNCHANGED <<closed, pvars, svars, lvars, srvvars, gvars, xvars>>

\* readexactly raises IncompleteReadError: break.
ReadEOF(c) ==
    /\ pc[c] = "await"
    /\ peerClosed[c]
    /\ Leave(c, "eof")
    /\ UNCHANGED <<phase, req, resp, wire, closed, pvars, svars, lvars,
                   srvvars, owed, gvars, xvars>>

\* StoreAcquire without the lock: the store call runs unprotected.
StoreAcquireUnlocked(c) ==
    /\ pc[c] = "acquire"
    /\ storeLock' = c
    /\ pc' = [pc EXCEPT ![c] = "body"]
    /\ UNCHANGED <<phase, req, resp, wire, closed, pvars, data, lvars,
                   srvvars, owed, exit, gvars, xvars>>

\* async with self._lock, entry.
StoreAcquire(c) ==
    /\ pc[c] = "acquire"
    /\ storeLock = NoConn
    /\ storeLock' = c
    /\ pc' = [pc EXCEPT ![c] = "body"]
    /\ UNCHANGED <<phase, req, resp, wire, closed, pvars, data, lvars,
                   srvvars, owed, exit, gvars, xvars>>

\* The ghost cleared after the body of connection c's store command cmd.
ClearedNext(c, cmd) ==
    [d \in Conns |->
       IF d = c
       THEN (CASE cmd = "CLEAR" -> "clean"
               [] cmd = "KEYS" /\ cleared[c] = "clean" -> "held"
               [] OTHER -> "no")
       ELSE IF cmd = "SET" /\ cleared[d] = "clean" THEN "dirty"
       ELSE cleared[d]]

\* The statements of the KVStore method under the lock; the lock is released
\* and the response written, except that a GET of a present key goes on to
\* its second statement.
StoreBody(c) ==
    /\ pc[c] = "body"
    /\ pre' = [pre EXCEPT ![c] = data]
    /\ lin' = [lin EXCEPT ![c] = AbsResp(serial, req[c])]
    /\ serial' = AbsApply(serial, req[c])
    /\ data' = StoreNext(data, req[c])
    /\ IF CmdOf(req[c]) = "GET" /\ ~GetMissing(data, req[c].key)
       THEN /\ pc' = [pc EXCEPT ![c] = "getread"]
            /\ UNCHANGED <<storeLock, resp, wire, owed>>
       ELSE /\ storeLock' = NoConn
            /\ WriteFrame(c, StoreResp(data, req[c]))
            /\ owed' = [owed EXCEPT ![c] = @ - 1]
    /\ cleared' = ClearedNext(c, CmdOf(req[c]))
    /\ UNCHANGED <<phase, req, closed, pvars, lvars, srvvars, exit,
                   lastread>>

\* GetRead that returns with the lock still held.
GetReadHolding(c) ==
    /\ pc[c] = "getread"
    /\ WriteFrame(c, GetResp(data, req[c].key))
    /\ owed' = [owed EXCEPT ![c] = @ - 1]
    /\ UNCHANGED <<phase, req, closed, pvars, svars, lvars, srvvars, exit,
                   gvars, xvars>>

\* KVStore.get: return {"ok": True, "value": self._data[key]}; a KeyError
\* would escape.
GetRead(c) ==
    /\ pc[c] = "getread"
    /\ storeLock' = NoConn
    /\ IF req[c].key \in DOMAIN data
       THEN /\ WriteFrame(c, GetResp(data, req[c].key))
            /\ owed' = [owed EXCEPT ![c] = @ - 1]
            /\ UNCHANGED exit
       ELSE /\ Leave(c, "store_error")
            /\ UNCHANGED <<resp, wire, owed>>
    /\ UNCHANGED <<phase, req, closed, pvars, data, lvars, srvvars, gvars,
                   xvars>>

\* await writer.drain(): returns, or raises when the connection is lost.
\* The request and the response are then only used to build the log record.
Drain(c) ==
    /\ pc[c] = "drain"
    /\ \E ok \in BOOLEAN :
         IF ok
         THEN /\ pc' = [pc EXCEPT ![c] = "log"]
              /\ UNCHANGED exit
         ELSE Leave(c, "send_error")
    /\ LocalsDead(c)
    /\ cleared' = [cleared EXCEPT ![c] = IF @ = "held" THEN "no" ELSE @]
    /\ UNCHANGED <<phase, closed, pvars, svars, lvars, srvvars, owed, serial>>

\* LogAcquire without the lock: the write starts at once.
LogAcquireUnlocked(c) ==
    /\ pc[c] = "log"
    /\ logLock' = c
    /\ pc' = [pc EXCEPT ![c] = "logwrite"]
    /\ UNCHANGED <<phase, req, resp, wire, closed, pvars, svars, log,
                   srvvars, owed, exit, gvars, xvars>>

\* JsonlLogger.log: async with self._lock, entry.
LogAcquire(c) ==
    /\ pc[c] = "log"
    /\ logLock = NoConn
    /\ logLock' = c
    /\ pc' = [pc EXCEPT ![c] = "logwrite"]
    /\ UNCHANGED <<phase, req, resp, wire, closed, pvars, svars, log,
                   srvvars, owed, exit, gvars, xvars>>

\* LogWrite with "continue" in place of "break" after the timeout record.
LogWriteNoBreak(c) ==
    /\ pc[c] = "logwrite"
    /\ logLock' = NoConn
    /\ \E ok \in BOOLEAN :
         IF ok
         THEN /\ log' = Append(log, LogRecord(c))
              /\ pc' = [pc EXCEPT ![c] = "await"]
              /\ UNCHANGED exit
         ELSE /\ Leave(c, "log_error")
              /\ UNCHANGED log
    /\ UNCHANGED <<phase, req, resp, wire, closed, pvars, svars, srvvars,
                   owed, gvars, xvars>>

\* JsonlLogger.log: await asyncio.to_thread(self._append_line, line) returns
\* after the line is appended, or raises (open or write fails, OSError); the
\* lock is released either way.  After a timeout the loop breaks, otherwise
\* it starts over.
LogWrite(c) ==
    /\ pc[c] = "logwrite"
    /\ logLock' = NoConn
    /\ \E ok \in BOOLEAN :
         IF ok
         THEN /\ log' = Append(log, LogRecord(c))
              /\ IF phase[c] = "timeout"
                 THEN Leave(c, "timeout")
                 ELSE /\ pc' = [pc EXCEPT ![c] = "await"]
                      /\ UNCHANGED exit
         ELSE /\ Leave(c, "log_error")
              /\ UNCHANGED log
    /\ UNCHANGED <<phase, req, resp, wire, closed, pvars, svars, srvvars,
                   owed, gvars, xvars>>

\* finally: writer.close(), await writer.wait_closed().
Close(c) ==
    /\ pc[c] = "finally"
    /\ closed' = [closed EXCEPT ![c] = TRUE]
    /\ pc' = [pc EXCEPT ![c] = "done"]
    /\ phase' = [phase EXCEPT ![c] = "exchange"]
    /\ LocalsDead(c)
    /\ owed' = [owed EXCEPT ![c] = 0]
    /\ exit' = [exit EXCEPT ![c] = "none"]
    /\ cleared' = [cleared EXCEPT ![c] = "no"]
    /\ UNCHANGED <<pvars, svars, lvars, srvvars, serial>>

(* ----------------------------- run_server ------------------------------- *)

\* The positions at which a handler task is suspended in an await.
AtAwait == {"await", "acquire", "drain", "log", "logwrite"}

\* SIGINT / SIGTERM: _graceful sets the stop event.
Signal ==
    /\ server = "serving"
    /\ ~stop
    /\ stop' = TRUE
    /\ UNCHANGED <<hvars, pvars, svars, lvars, listening, server, owed,
                   exit, gvars, xvars>>

\* stop.wait() returns and "async with server" exits: Server.close() closes
\* the listening sockets.
ServerClose ==
    /\ server = "serving"
    /\ stop
    /\ listening' = FALSE
    /\ server' = "wait_closed"
    /\ UNCHANGED <<hvars, pvars, svars, lvars, stop, owed, exit, gvars,
                   xvars>>

\* "async with server" then awaits Server.wait_closed(), run_server returns
\* and asyncio.run cancels every task that is left.  The code does not track
\* its handlers itself: whether wait_closed waits for the open connections
\* depends on the interpreter (it returns at once after close() before
\* Python 3.12 and waits for the connections from 3.12 on), so both
\* outcomes are allowed.  Each handler still suspended gets CancelledError
\* at its await and goes to its finally block; a log line whose write was
\* already handed to a thread may or may not reach the file.
Shutdown ==
    /\ server = "wait_closed"
    /\ \A c \in Conns : pc[c] \notin {"body", "getread", "finally"}
    /\ \E immediate \in BOOLEAN :
         immediate \/ \A c \in Conns : pc[c] \in {"idle", "done"}
    /\ pc' = [c \in Conns |-> IF pc[c] \in AtAwait THEN "finally" ELSE pc[c]]
    /\ exit' = [c \in Conns |->
                  IF pc[c] \in AtAwait THEN "cancelled" ELSE exit[c]]
    /\ logLock' = NoConn
    /\ \E ok \in BOOLEAN :
         log' = IF ok /\ logLock # NoConn
                THEN Append(log, LogRecord(logLock))
                ELSE log
    /\ server' = "gather"
    /\ UNCHANGED <<phase, req, resp, wire, closed, pvars, svars, listening,
                   stop, owed, gvars, xvars>>

\* asyncio.run returns once the cancelled tasks have finished.
Exit ==
    /\ server = "gather"
    /\ \A c \in Conns : pc[c] \in {"idle", "done"}
    /\ server' = "exited"
    /\ UNCHANGED <<hvars, pvars, svars, lvars, listening, stop, owed,
                   exit, gvars, xvars>>

(* --------------------------- specification ------------------------------ *)

Next ==
    \/ \E c \in Conns : Accept(c)
    \/ \E c \in Conns : PeerClose(c)
    \/ \E c \in Conns : Elapse(c)
    \/ \E c \in Conns : ReadFrame(c)
    \/ \E c \in Conns : Timeout(c)
    \/ \E c \in Conns : ReadEOF(c)
    \/ \E c \in Conns : StoreAcquire(c)
    \/ \E c \in Conns : StoreBody(c)
    \/ \E c \in Conns : GetRead(c)
    \/ \E c \in Conns : Drain(c)
    \/ \E c \in Conns : LogAcquire(c)
    \/ \E c \in Conns : LogWrite(c)
    \/ \E c \in Conns : Close(c)

\* The connection handlers, the store and the log while the server runs.
Spec == Init /\ [][Next]_vars

\* The same with the shutdown of run_server.
LifecycleNext ==
    \/ Next
    \/ Signal
    \/ ServerClose
    \/ Shutdown
    \/ Exit

LifecycleSpec == Init /\ [][LifecycleNext]_vars

\* The finally block runs once control has reached it.
FairSpec == Spec /\ \A c \in Conns : WF_vars(Close(c))

(* ------------------------------ properties ------------------------------ *)

\* C1: the store always holds what the serial execution of the store calls,
\* in the order in which their bodies ran, produces, and every GET is
\* answered as that serial execution answers it: "not found" or the whole
\* value of the latest SET of the key.
C1_Linearizable ==
    /\ data = AsDict(serial)
    /\ \A c \in Conns :
         (CmdOf(req[c]) = "GET" /\ lin[c] # NoResp /\ pc[c] # "getread")
           => /\ resp[c] = lin[c]
              /\ \/ resp[c] = NotFound
                 \/ resp[c] \in [ok : {TRUE}, value : Values]

\* A GET has been answered with a stored value while the other connection
\* waits for the store with a SET or DEL of the same key.
C1_Witness ==
    \E c, d \in Conns :
      /\ c # d
      /\ pc[c] = "drain" /\ CmdOf(req[c]) = "GET"
      /\ resp[c] = [ok |-> TRUE, value |-> "x"]
      /\ pc[d] = "acquire" /\ CmdOf(req[d]) \in {"SET", "DEL"}
      /\ req[d].key = req[c].key

\* C2: a DEL that reaches the store answers deleted = TRUE exactly when the
\* key was in the store as the call found it, whatever its value, and the
\* key is absent once the call has run.
C2_DeleteReportsPresence ==
    [][\A c \in Conns :
         (pc[c] = "body" /\ pc'[c] # "body" /\ CmdOf(req[c]) = "DEL")
           => /\ resp'[c] = [ok |-> TRUE,
                             deleted |-> req[c].key \in DOMAIN data]
              /\ req[c].key \notin DOMAIN data']_vars

\* C3: no request that read_frame has decoded makes the dispatch raise: the
\* handler never leaves its loop because of an error of the dispatch or of a
\* store call.
C3_DispatchNeverRaises ==
    \A c \in Conns : exit[c] \notin {"dispatch_error", "store_error"}

\* C4: a failed log call does not end the loop: the handler never leaves its
\* loop because logger.log raised (after the timeout record the loop ends
\* anyway).
C4_LogFailureTolerated ==
    \A c \in Conns : exit[c] = "log_error" => phase[c] = "timeout"

\* C5: when IdleTimeout has passed without a frame, the handler's next step
\* writes the idle-timeout response and changes neither the store, the log
\* nor the other connection; afterwards it writes nothing more on the
\* connection, never reads again, and ends only with the writer closed.
C5_IdleTimeout ==
    [][\A c \in Conns :
         /\ (pc[c] = "await" /\ idle[c] >= IdleTimeout /\ pc'[c] # "await")
              => /\ pc'[c] = "drain" /\ phase'[c] = "timeout"
                 /\ wire'[c] = IdleResp
                 /\ data' = data /\ serial' = serial /\ log' = log
                 /\ \A d \in Conns \ {c} :
                      /\ pc'[d] = pc[d] /\ phase'[d] = phase[d]
                      /\ req'[d] = req[d] /\ resp'[d] = resp[d]
                      /\ wire'[d] = wire[d] /\ closed'[d] = closed[d]
         /\ phase[c] = "timeout"
              => /\ wire'[c] \in {wire[c], NoResp}
                 /\ pc'[c] \in {"drain", "log", "logwrite", "finally", "done"}
                 /\ pc'[c] = "done" => closed'[c]]_vars

\* The timeout response of one connection has been sent and logged and its
\* loop left, while the other connection is in the middle of a store call.
C5_Witness ==
    \E c, d \in Conns :
      /\ c # d
      /\ phase[c] = "timeout" /\ exit[c] = "timeout" /\ pc[c] = "finally"
      /\ pc[d] = "body"

\* C6: a handler never ends with its writer open, and whenever it has left
\* its loop (end of stream, timeout, failed send, failed log call, error of
\* the dispatch or of a store call) its writer is eventually closed.
C6_TransportReleased ==
    /\ [](\A c \in Conns : pc[c] = "done" => closed[c])
    /\ \A c \in Conns : (exit[c] # "none") ~> closed[c]

\* One handler has ended with its writer closed and the other has left its
\* loop on an error of the dispatch.
C6_Witness ==
    \E c, d \in Conns :
      /\ pc[c] = "done" /\ closed[c]
      /\ pc[d] = "finally" /\ exit[d] = "dispatch_error"

\* C7: after a decode failure the handler writes an error response, appends
\* a read_error record and goes back to reading with the connection open and
\* the store unchanged.
C7_ReadErrorKeepsOpen ==
    [][\A c \in Conns :
         /\ (pc[c] = "await" /\ phase'[c] = "read_error")
              => /\ pc'[c] = "drain" /\ data' = data
                 /\ wire'[c] \in [ok : {FALSE}, error : STRING]
         /\ (phase[c] = "read_error" /\ pc[c] = "logwrite"
               /\ pc'[c] # "logwrite")
              => /\ pc'[c] = "await" /\ ~closed'[c] /\ data' = data
                 /\ log' = Append(log, [peer |-> c, event |-> "read_error"])
       ]_vars

\* C8: when the peer has ended its stream while the handler reads, the
\* handler's next step leaves the loop and neither writes a frame nor
\* appends a log record.
C8_PeerCloseSilent ==
    [][\A c \in Conns :
         (pc[c] = "await" /\ peerClosed[c] /\ pc'[c] # "await")
           => /\ pc'[c] = "finally"
              /\ wire' = wire /\ resp' = resp /\ owed' = owed
              /\ log' = log /\ data' = data]_vars

\* A handler has left its loop on the end of the stream after it had
\* answered and logged an earlier request.
C8_Witness ==
    \E c \in Conns :
      /\ exit[c] = "eof" /\ pc[c] = "finally"
      /\ wire[c] = NoResp
      /\ log = <<[peer |-> c, event |-> "exchange"]>>

\* C9: a handler has at most one request read and not yet answered, and it
\* is reading (or sending, or logging) only when every request it has read
\* has been answered; the frame it sends is the response it built last.
C9_NoPipelining ==
    \A c \in Conns :
      /\ owed[c] \in {0, 1}
      /\ pc[c] \in {"idle", "await", "drain", "log", "logwrite", "done"}
           => owed[c] = 0
      /\ pc[c] = "drain" => wire[c] = resp[c] /\ resp[c] # NoResp

\* A connection whose first request has been answered and logged has its
\* second request in the store call, not yet answered.
C9_Witness ==
    \E c \in Conns :
      /\ pc[c] = "body" /\ owed[c] = 1
      /\ Len(log) = 1 /\ log[1].peer = c

\* C10: once the listener is closed no connection is accepted, no handler is
\* cancelled, and the process exits only when every handler has ended.
C10_GracefulShutdown ==
    [][/\ ~listening => \A c \in Conns : pc[c] = "idle" => pc'[c] = "idle"
       /\ \A c \in Conns : exit'[c] # "cancelled"
       /\ server' = "exited" => \A c \in Conns : pc'[c] \in {"idle", "done"}
      ]_vars

\* C11 as stated: a KEYS that a connection sends as its next request after
\* its CLEAR is answered with the empty key list, whatever else has run.
C11_ClearThenKeysAlways ==
    [][\A c \in Conns :
         (pc[c] = "body" /\ pc'[c] # "body" /\ CmdOf(req[c]) = "KEYS"
            /\ cleared[c] \in {"clean", "dirty"})
           => wire'[c] = [ok |-> TRUE, keys |-> {}]]_vars

\* C11: whatever the store held before, a KEYS that a connection sends as
\* its next request after its CLEAR is answered with the empty key list,
\* provided no SET of another connection has run between the two.
C11_ClearThenKeys ==
    [][\A c \in Conns :
         (pc[c] = "body" /\ pc'[c] # "body" /\ CmdOf(req[c]) = "KEYS"
            /\ cleared[c] = "clean")
           => /\ pc'[c] = "drain"
              /\ wire'[c] = [ok |-> TRUE, keys |-> {}]]_vars

\* The KEYS that followed the connection's CLEAR has been answered with the
\* empty list while a SET of the other connection waits for the store.
C11_Witness ==
    \E c, d \in Conns :
      /\ c # d
      /\ cleared[c] = "held" /\ pc[c] = "drain"
      /\ wire[c] = [ok |-> TRUE, keys |-> {}]
      /\ pc[d] = "acquire" /\ CmdOf(req[d]) = "SET"

\* The commands of the protocol.
KnownCmds == {"PING", "LOAN", "SET", "GET", "DEL", "KEYS", "CLEAR"}

\* The cmd of a request as a text in upper case: nothing for a missing or
\* null cmd, the digits of a number.
CmdText(r) ==
    CASE r.cmd \in {Absent, JNull} -> ""
      [] r.cmd = JNum -> "5"
      [] OTHER -> Upper(r.cmd)

\* C12: a request whose cmd is none of the commands of the protocol,
\* whatever its case, is answered "unknown cmd: <CMD>" with the store
\* unchanged and the handler on its way back to reading.
C12_UnknownCmd ==
    [][\A c \in Conns :
         (pc[c] = "await" /\ pc'[c] # "await" /\ req'[c].shape = "dict"
            /\ CmdText(req'[c]) \notin KnownCmds)
           => /\ pc'[c] = "drain"
              /\ wire'[c] = Err("unknown cmd: " \o CmdText(req'[c]))
              /\ data' = data /\ ~closed'[c]]_vars

\* C13: every response frame the server writes declares a length between 0
\* and MaxFrameLen, the ceiling read_frame enforces on requests.
C13_ResponseWithinCeiling ==
    \A c \in Conns :
      wire[c] # NoResp
        => FrameLen(wire[c]) >= 0 /\ FrameLen(wire[c]) <= MaxFrameLen

\* C14: a LOAN request that lacks username, loan_amount, years or
\* annual_rate is answered with ok = FALSE, the store unchanged and the
\* connection open.
C14_LoanMissingField ==
    [][\A c \in Conns :
         (pc[c] = "await" /\ pc'[c] # "await" /\ req'[c].shape = "dict"
            /\ CmdText(req'[c]) = "LOAN"
            /\ \/ req'[c].username = Absent
               \/ req'[c].loan_amount = <<>>
               \/ req'[c].years = <<>>
               \/ req'[c].annual_rate = <<>>)
           => /\ pc'[c] = "drain"
              /\ wire'[c].ok = FALSE
              /\ data' = data /\ ~closed'[c]]_vars

\* C15: a SET is answered ok and leaves its value under its key; a GET of a
\* key that is not in the store is answered "not found"; a GET of a key
\* that is in the store is answered with the value of the latest SET of the
\* key, no DEL of the key and no CLEAR having run since.
C15_SetThenGet ==
    [][\A c \in Conns :
         /\ (pc[c] = "body" /\ pc'[c] # "body" /\ CmdText(req[c]) = "SET")
              => /\ wire'[c] = Ok
                 /\ req[c].key \in DOMAIN data'
                 /\ data'[req[c].key] = req[c].value
         /\ (pc[c] = "body" /\ pc'[c] # "body" /\ CmdText(req[c]) = "GET"
               /\ req[c].key \notin DOMAIN data)
              => wire'[c] = NotFound
         /\ (pc[c] = "getread" /\ pc'[c] # "getread")
              => /\ serial[req[c].key] # Absent
                 /\ wire'[c] = [ok |-> TRUE, value |-> serial[req[c].key]]
       ]_vars

\* A connection whose SET of null has been answered and logged has its GET
\* of the key answered with null.
C15_Witness ==
    \E c \in Conns :
      /\ log = <<[peer |-> c, event |-> "exchange"]>>
      /\ pc[c] = "drain" /\ CmdText(req[c]) = "GET"
      /\ wire[c] = [ok |-> TRUE, value |-> JNull]

\* C16: the store lock is held only by a handler inside a store operation,
\* never by one that reads, sends or logs; the log lock only by a handler
\* inside the log write; no handler holds both.
C16_LockDiscipline ==
    \A c \in Conns :
      /\ storeLock = c => pc[c] \in {"body", "getread"}
      /\ logLock = c => pc[c] = "logwrite"
      /\ ~(storeLock = c /\ logLock = c)
      /\ pc[c] \in {"body", "getread"} => storeLock = c

\* One handler is inside a store operation while the other writes the log.
C16_Witness ==
    \E c, d \in Conns :
      /\ storeLock = c /\ pc[c] = "getread"
      /\ logLock = d /\ pc[d] = "logwrite"

\* C17: at most one handler is inside the file-append section, and the log
\* changes only by the append of the whole record of the handler that holds
\* the log lock: no record already written is changed or removed.
C17_LogSerialized ==
    /\ [](Cardinality({c \in Conns : pc[c] = "logwrite"}) <= 1)
    /\ [][log' # log
            => \E c \in Conns :
                 /\ pc[c] = "logwrite" /\ logLock = c
                 /\ log' = Append(log, [peer |-> c, event |-> phase[c]])
         ]_vars

\* One handler is inside the file-append section while the other, whose
\* earlier record is in the log, waits for the log lock.
C17_Witness ==
    \E c, d \in Conns :
      /\ c # d
      /\ pc[c] = "logwrite" /\ pc[d] = "log"
      /\ Len(log) >= 1 /\ log[1].peer = d

\* C18: a handler that has sent its response is never suspended until a
\* file write completes, neither the write of its own record nor, at the log
\* lock, the write of another connection.
C18_LogDecoupled ==
    \A c \in Conns :
      /\ pc[c] # "logwrite"
      /\ pc[c] = "log" => logLock = NoConn

\* C19: a header that declares more than MaxFrameLen bytes makes read_frame
\* fail with the frame-length error after it has taken the HeaderSize bytes
\* of the header and nothing else from the stream; any other frame is taken
\* whole.
C19_OversizeConsumesHeaderOnly ==
    [][\A c \in Conns :
         (pc[c] = "await" /\ lastread'[c] # lastread[c])
           => IF lastread'[c].declared > MaxFrameLen
              THEN /\ lastread'[c].consumed = HeaderSize
                   /\ phase'[c] = "read_error" /\ pc'[c] = "drain"
                   /\ wire'[c] = Err("invalid frame length")
              ELSE /\ lastread'[c].consumed
                        = HeaderSize + lastread'[c].declared
                   /\ wire'[c] # Err("invalid frame length")]_vars

\* A handler that has answered and logged a read error has read a second
\* oversize header.
C19_Witness ==
    \E c \in Conns :
      /\ Len(log) >= 1 /\ log[1] = [peer |-> c, event |-> "read_error"]
      /\ lastread[c] = [declared |-> 2 * MaxFrameLen, consumed |-> HeaderSize]

\* C20: the store is empty at startup and changes only in the step of a SET
\* that carries a key and a value, of a DEL that carries a key, or of a
\* CLEAR.
C20_StoreChangesOnlyByWrites ==
    /\ data = EmptyDict
    /\ [][data' # data
            => \E c \in Conns :
                 /\ pc[c] = "body" /\ pc'[c] # "body"
                 /\ \/ /\ CmdText(req[c]) = "SET"
                       /\ req[c].key \notin {Absent, JNull}
                       /\ req[c].value # Absent
                    \/ /\ CmdText(req[c]) = "DEL"
                       /\ req[c].key \notin {Absent, JNull}
                    \/ CmdText(req[c]) = "CLEAR"
         ]_vars

\* The store holds an entry while a GET without key has been rejected and a
\* handler has left its loop on an idle timeout.
C20_Witness ==
    \E c, d \in Conns :
      /\ data # EmptyDict
      /\ pc[c] = "drain" /\ wire[c] = Err("GET requires 'key'")
      /\ exit[d] = "timeout"

====
